---- MODULE Spec2Model ----
(***************************************************************************)
(* caden-blog (src/src/main.rs): the post store (get_from_file,            *)
(* post_handler, deserialize_post), the feed handler (posts) and the       *)
(* asset cache (handle_asset_request, load_file) as a state machine.       *)
(*                                                                         *)
(* Text is modelled as sequences of one-character strings so that          *)
(* str::contains, str::replace and format! are computed, not assumed.      *)
(***************************************************************************)
EXTENDS Integers, Sequences, FiniteSets, TLC

(***************************************************************************)
(* Bounds of the model.                                                    *)
(***************************************************************************)
\* how many asset requests one behaviour issues
MaxRequests == 2
\* how many times the environment rewrites or deletes an asset file
MaxFsChanges == 2
\* the server clock is drawn from 0..MaxTime
MaxTime == 1

(***************************************************************************)
(* Program constants.                                                      *)
(***************************************************************************)
\* StatusCode::NOT_FOUND
StatusNotFound == 404
\* the status axum gives an Html<String> / Response::builder() response
StatusOk == 200

(***************************************************************************)
(* Text.                                                                   *)
(***************************************************************************)
DotJson == <<".", "j", "s", "o", "n">>
DotDot == <<".", ".">>
PostsRoot == <<".", "/", "c", "a", "d", "e", "n", "-", "b", "l", "o", "g", "/", "p", "o", "s", "t", "s", "/">>
AssetsRoot == <<".", "/", "c", "a", "d", "e", "n", "-", "b", "l", "o", "g", "/", "a", "s", "s", "e", "t", "s", "/">>
PostLinkPrefix == <<"/", "p", "o", "s", "t", "/">>

\* s starts with pat
StartsWith(s, pat) ==
  /\ Len(s) >= Len(pat)
  /\ SubSeq(s, 1, Len(pat)) = pat

\* str::contains: pat occurs in s as a substring
Contains(s, pat) ==
  \E i \in 1..(Len(s) - Len(pat) + 1) : SubSeq(s, i, i + Len(pat) - 1) = pat

\* str::replace(pat, ""): every non-overlapping occurrence of pat, scanning
\* from the left, is removed; the result is not scanned again
RECURSIVE Remove(_, _)
Remove(s, pat) ==
  IF Len(s) < Len(pat) THEN s
  ELSE IF StartsWith(s, pat) THEN Remove(SubSeq(s, Len(pat) + 1, Len(s)), pat)
  ELSE <<Head(s)>> \o Remove(Tail(s), pat)

\* the segments of a path string between its "/" separators
RECURSIVE SplitFrom(_, _)
SplitFrom(s, cur) ==
  IF s = <<>> THEN <<cur>>
  ELSE IF Head(s) = "/" THEN <<cur>> \o SplitFrom(Tail(s), <<>>)
  ELSE SplitFrom(Tail(s), Append(cur, Head(s)))

Segments(s) == SplitFrom(s, <<>>)

(***************************************************************************)
(* The file tree.  The process runs in a directory that holds caden-blog/, *)
(* which holds assets/ and posts/.  A file is named by the directory it is *)
(* in and its name; fs maps the files that exist to their content.         *)
(***************************************************************************)
CadenBlogName == <<"c", "a", "d", "e", "n", "-", "b", "l", "o", "g">>
AssetsName == <<"a", "s", "s", "e", "t", "s">>
PostsName == <<"p", "o", "s", "t", "s">>

\* the parent of a directory; "outside" is everything above the working directory
ParentDir(d) ==
  CASE d = "assets" -> "root"
    [] d = "posts" -> "root"
    [] d = "root" -> "cwd"
    [] OTHER -> "outside"

\* the sub-directory of d named seg, or "none"
ChildDir(d, seg) ==
  CASE d = "cwd" /\ seg = CadenBlogName -> "root"
    [] d = "root" /\ seg = AssetsName -> "assets"
    [] d = "root" /\ seg = PostsName -> "posts"
    [] OTHER -> "none"

\* the kernel's walk of a relative path from directory d: "." and empty segments
\* stay, ".." goes to the parent, a name enters a sub-directory or, as the last
\* segment, names a file of d
RECURSIVE Walk(_, _)
Walk(d, segs) ==
  IF segs = <<>> THEN [kind |-> "dir", dir |-> d]
  ELSE IF Head(segs) = <<>> \/ Head(segs) = <<".">> THEN Walk(d, Tail(segs))
  ELSE IF Head(segs) = DotDot THEN Walk(ParentDir(d), Tail(segs))
  ELSE IF ChildDir(d, Head(segs)) # "none" THEN Walk(ChildDir(d, Head(segs)), Tail(segs))
  ELSE IF Len(segs) = 1 THEN [kind |-> "file", dir |-> d, name |-> Head(segs)]
  ELSE [kind |-> "noent"]

\* where a path string, relative to the working directory, leads
Resolve(path) == Walk("cwd", Segments(path))

(***************************************************************************)
(* File contents.  A post file holds a JSON object (its payload), or text  *)
(* that serde_json does not accept as a Post; an asset holds bytes.        *)
(***************************************************************************)
NoText == <<>>

Payload1 ==
  [title |-> "t1", body |-> "b1", image_url |-> "i1", summary |-> "s1",
   timestamp |-> 1, tags |-> <<"software">>, url_name |-> NoText]

\* a payload that carries a url_name key of its own, and a later timestamp
Payload2 ==
  [title |-> "t2", body |-> "b2", image_url |-> "i2", summary |-> "s2",
   timestamp |-> 2, tags |-> <<"Software", "hardware">>, url_name |-> <<"z">>]

Payloads == {Payload1, Payload2}

JsonOf(p) == [kind |-> "json", payload |-> p]
Garbage == [kind |-> "garbage"]
BytesOf(v) == [kind |-> "bytes", v |-> v]

\* what a post file may be: a valid post, malformed text, or a file that
\* exists and cannot be opened
PostFiles ==
  {[content |-> JsonOf(p), readable |-> TRUE] : p \in Payloads}
    \cup {[content |-> Garbage, readable |-> TRUE],
          [content |-> JsonOf(Payload1), readable |-> FALSE]}

AssetBytes == {BytesOf("v1"), BytesOf("v2")}

AssetFiles == {[content |-> b, readable |-> TRUE] : b \in AssetBytes}

\* file names the posts directory may hold: a.json, b.json.json, c.json and
\* d..json
FileA == <<"a">> \o DotJson
FileB == <<"b">> \o DotJson \o DotJson
FileC == <<"c">> \o DotJson
FileD == <<"d", ".">> \o DotJson

PostFileNames == {FileA, FileB, FileC, FileD}

\* what each of them may be when it exists
PostFileOptions(n) ==
  IF n = FileA THEN PostFiles
  ELSE IF n = FileD THEN {[content |-> JsonOf(Payload1), readable |-> TRUE]}
  ELSE {[content |-> JsonOf(p), readable |-> TRUE] : p \in Payloads}

AssetFileOptions(n) == AssetFiles

Missing == [content |-> [kind |-> "missing"], readable |-> FALSE]

\* file names the assets directory may hold
AssetFileNames == {<<"x">>}

FileKey(dir, name) == <<dir, name>>

(***************************************************************************)
(* State.                                                                  *)
(***************************************************************************)
VARIABLES
  fs,        \* the files that exist: FileKey -> [content, readable]
  dirOrder,  \* the order in which read_dir yields the posts directory's names
  now,       \* the server's clock
  feed,      \* the last /posts request and its outcome
  page,      \* the last /post/:url_name request and its outcome
  loaded,    \* the last call of get_from_file and its result
  cache,     \* FileCache: requested filename -> bytes
  lock,      \* the request holding the cache's Mutex, 0 when free
  req,       \* the /assets/:filename requests
  fsChanges, \* how many times the environment changed an asset file
  inserts    \* the requests that took the Mutex for an insert, in that order

vars == <<fs, dirOrder, now, feed, page, loaded, cache, lock, req, fsChanges, inserts>>

(***************************************************************************)
(* File system calls.                                                      *)
(***************************************************************************)
\* Path::exists: the path leads to a directory or to a file that exists
PathExists(path) ==
  LET r == Resolve(path) IN
    \/ r.kind = "dir"
    \/ r.kind = "file" /\ FileKey(r.dir, r.name) \in DOMAIN fs

\* File::open followed by reading to the end, on what the path leads to: the
\* file's content, or an error ("open": no such file, or not permitted;
\* "read": a directory was opened)
ReadResolved(r) ==
    IF r.kind = "dir" THEN [ok |-> FALSE, err |-> "read"]
    ELSE IF r.kind = "file" /\ FileKey(r.dir, r.name) \in DOMAIN fs
            /\ fs[FileKey(r.dir, r.name)].readable
      THEN [ok |-> TRUE, content |-> fs[FileKey(r.dir, r.name)].content,
            key |-> FileKey(r.dir, r.name)]
    ELSE [ok |-> FALSE, err |-> "open"]

ReadPath(path) == ReadResolved(Resolve(path))

\* list_files_in_directory("./caden-blog/posts"): the names of the files of
\* the posts directory, in the order read_dir yields them
ListFilesInDirectory ==
  SelectSeq(dirOrder, LAMBDA n : FileKey("posts", n) \in DOMAIN fs)

(***************************************************************************)
(* The post store.                                                         *)
(***************************************************************************)
\* deserialize_post: serde_json::from_str(..).expect(..) panics on text that
\* is no Post; url_name is #[serde(skip)], so a url_name key of the payload
\* is not read, and the field is set from the argument
DeserializePost(json_data, url_name) ==
  IF json_data.kind = "json"
    THEN [kind |-> "some",
          post |-> [title |-> json_data.payload.title,
                    body |-> json_data.payload.body,
                    image_url |-> json_data.payload.image_url,
                    summary |-> json_data.payload.summary,
                    timestamp |-> json_data.payload.timestamp,
                    tags |-> json_data.payload.tags,
                    url_name |-> url_name]]
    ELSE [kind |-> "panic"]

\* the test without its ".." check
PathAcceptedUnchecked(dir) == PathExists(dir)

\* the test both loaders make before they open the file
PathAccepted(dir) == PathExists(dir) /\ ~Contains(dir, DotDot)

\* the url_name get_from_file gives a post
UrlNameOf(file_name) == Remove(file_name, DotJson)

\* get_from_file: Some(post), None, or a panic; opened counts File::open calls
GetFromFile(file_name) ==
  LET dir == PostsRoot \o file_name IN
    IF PathAccepted(dir)
      THEN LET rd == ReadPath(dir) IN
             IF rd.ok
               THEN [opened |-> 1] @@ DeserializePost(rd.content, UrlNameOf(file_name))
               ELSE [kind |-> "panic", opened |-> 1]
      ELSE [kind |-> "none", opened |-> 0]

\* post_handler: the post's page, the "404 - Post Not Found" page, or a panic.
\* Both pages are returned as Html(..), whose status is 200.
PostHandler(url_name) ==
  LET dir == PostsRoot \o url_name \o DotJson IN
    IF PathAccepted(dir)
      THEN LET rd == ReadPath(dir) IN
             IF rd.ok
               THEN LET d == DeserializePost(rd.content, url_name) IN
                      IF d.kind = "some"
                        THEN [kind |-> "post_page", status |-> StatusOk,
                              post |-> d.post, opened |-> 1]
                        ELSE [kind |-> "panic", opened |-> 1]
               ELSE [kind |-> "panic", opened |-> 1]
      ELSE [kind |-> "not_found_page", status |-> StatusOk, opened |-> 0]

(***************************************************************************)
(* The feed.                                                               *)
(***************************************************************************)
NoTag == [some |-> FALSE]
SomeTag(t) == [some |-> TRUE, v |-> t]

\* a match that ignores the case of the first letter
LowerTag(t) ==
  CASE t = "Software" -> "software"
    [] t = "Hardware" -> "hardware"
    [] OTHER -> t

TagsContainAnyCase(tags, t) == \E i \in 1..Len(tags) : LowerTag(tags[i]) = LowerTag(t)

\* Vec<String>::contains: some tag of the post equals the filter
TagsContain(tags, t) == \E i \in 1..Len(tags) : tags[i] = t

\* hours a zone's wall clock is ahead of UTC
ZoneOffset(z) ==
  CASE z = "America/New_York" -> -5
    [] z = "Europe/Paris" -> 1
    [] OTHER -> 0

\* the zone the feed's timestamps are written in: DateTime<Utc>::format
DisplayZone(header, cookie) == "UTC"

\* one card of the feed
Card(post, zone) ==
  [image_url |-> post.image_url,
   title |-> post.title,
   posted |-> post.timestamp + ZoneOffset(zone),
   summary |-> post.summary,
   link |-> PostLinkPrefix \o post.url_name]

\* a filter that also sorts what it lets through, newest first
FilterPostsNewestFirst(ps, tag) ==
  LET kept == IF tag.some THEN SelectSeq(ps, LAMBDA p : TagsContain(p.tags, tag.v)) ELSE ps
      n == Len(kept)
      order == CHOOSE q \in [1..n -> 1..n] :
                 /\ \A i, j \in 1..n : i # j => q[i] # q[j]
                 /\ \A i, j \in 1..n :
                      i < j => \/ kept[q[i]].timestamp > kept[q[j]].timestamp
                               \/ /\ kept[q[i]].timestamp = kept[q[j]].timestamp
                                  /\ q[i] < q[j]
  IN [i \in 1..n |-> kept[order[i]]]

\* the posts a tag filter lets through, in their order
FilterPosts(ps, tag) ==
  IF tag.some THEN SelectSeq(ps, LAMBDA p : TagsContain(p.tags, tag.v)) ELSE ps

\* posts: every listed file is loaded and unwrapped (None and a panic of the
\* loader both end the request in a panic), then the cards are written
Posts(tag, header, cookie) ==
  LET files == ListFilesInDirectory
      loads == [i \in 1..Len(files) |-> GetFromFile(files[i])]
  IN IF \E i \in 1..Len(files) : loads[i].kind # "some"
       THEN [kind |-> "panic"]
       ELSE LET ps == [i \in 1..Len(files) |-> loads[i].post]
                shown == FilterPosts(ps, tag)
                zone == DisplayZone(header, cookie)
            IN [kind |-> "html", status |-> StatusOk, zone |-> zone,
                cards |-> [i \in 1..Len(shown) |-> Card(shown[i], zone)]]

(***************************************************************************)
(* Requests to the post store and the feed.                                *)
(***************************************************************************)
Idle == [state |-> "idle"]

TagFilters == {NoTag, SomeTag("software"), SomeTag("hardware"), SomeTag("gaming")}
Absent == "absent"
ZoneHeaders == {Absent, "America/New_York", "not-a-zone"}
ZoneCookies == {Absent, "Europe/Paris"}
ValidZones == {"UTC", "America/New_York", "Europe/Paris"}

\* url_name path parameters of /post/:url_name
UrlNames ==
  { <<"a">>,
    <<"b">>,
    <<"b">> \o DotJson,
    <<"c", ".">>,
    <<".", ".", "/", "p", "o", "s", "t", "s", "/", "a">>,
    <<".", ".", "/", "p", "o", "s", "t", "s", "/", "q">> }

\* GET /posts.  posts reads nothing a request writes, so a behaviour follows
\* one request from each file tree: a second request would add no state.
PostsRequest(tag, header, cookie) ==
  /\ feed = Idle
  /\ feed' = [state |-> "done", tag |-> tag, header |-> header, cookie |-> cookie,
              resp |-> Posts(tag, header, cookie)]
  /\ UNCHANGED <<fs, dirOrder, now, page, loaded, cache, lock, req, fsChanges, inserts>>

\* GET /post/:url_name
PostRequest(url_name) ==
  /\ page' = [state |-> "done", url_name |-> url_name, resp |-> PostHandler(url_name)]
  /\ UNCHANGED <<fs, dirOrder, now, feed, loaded, cache, lock, req, fsChanges, inserts>>

\* identifiers get_from_file is called with: the names of the posts directory,
\* ../posts/a.json and q.json
LoadIdentifiers ==
  PostFileNames
    \cup { <<".", ".", "/", "p", "o", "s", "t", "s", "/">> \o FileA,
           <<"q">> \o DotJson }

\* a call of get_from_file
GetFromFileCall(file_name) ==
  /\ loaded' = [state |-> "done", file_name |-> file_name, res |-> GetFromFile(file_name)]
  /\ UNCHANGED <<fs, dirOrder, now, feed, page, cache, lock, req, fsChanges, inserts>>

(***************************************************************************)
(* The asset cache.  handle_asset_request takes the Mutex for the lookup;  *)
(* the guard is a temporary of the `if let`, dropped when the hit returns  *)
(* or when the statement ends on a miss.  load_file then reads the file    *)
(* with the Mutex free and takes it again for the insert alone.            *)
(***************************************************************************)
Requests == 1..MaxRequests

\* filename path parameters of /assets/:filename, percent-decoded by Path
AssetRequestNames ==
  { <<"x">>,
    <<".", ".", "/", "p", "o", "s", "t", "s", "/", "a">> \o DotJson,
    DotDot }

NoContent == [kind |-> "nothing"]
NoResponse == [kind |-> "pending"]

IdleRequest ==
  [pc |-> "idle", filename |-> NoText, contents |-> NoContent,
   resp |-> NoResponse, reads |-> 0, opened |-> {}]

\* cache_control_response(content)
CacheControlResponse(content) ==
  [kind |-> "ok", status |-> StatusOk, body |-> content,
   cache_control |-> "public, max-age=31536000"]

\* Err(StatusCode::NOT_FOUND)
NotFoundResponse == [kind |-> "err", status |-> StatusNotFound]

\* a lookup that never finds an entry
CacheHasNothing(filename) == FALSE

\* cache.get(&filename): is there an entry for the filename
CacheHas(filename) == filename \in DOMAIN cache

\* the request arrives; requests are numbered in the order they arrive
Begin(r, filename) ==
  /\ req[r].pc = "idle"
  /\ \A q \in Requests : q < r => req[q].pc # "idle"
  /\ req' = [req EXCEPT ![r].pc = "check", ![r].filename = filename]
  /\ UNCHANGED <<fs, dirOrder, now, feed, page, loaded, cache, lock, fsChanges, inserts>>

\* cache.lock() of the lookup
LockForLookup(r) ==
  /\ req[r].pc = "check"
  /\ lock = 0
  /\ lock' = r
  /\ req' = [req EXCEPT ![r].pc = "lookup"]
  /\ UNCHANGED <<fs, dirOrder, now, feed, page, loaded, cache, fsChanges, inserts>>

\* a lookup whose guard lives on after a miss (the load written inside the
\* else branch of the if let)
LookupKeepsGuard(r) ==
  /\ req[r].pc = "lookup"
  /\ lock = r
  /\ IF CacheHas(req[r].filename)
       THEN /\ lock' = 0
            /\ req' = [req EXCEPT ![r].pc = "done",
                                  ![r].resp = CacheControlResponse(cache[req[r].filename])]
       ELSE /\ lock' = lock
            /\ req' = [req EXCEPT ![r].pc = "load"]
  /\ UNCHANGED <<fs, dirOrder, now, feed, page, loaded, cache, fsChanges, inserts>>

\* .get(&filename).cloned(): a hit returns the cached bytes, a miss goes on
\* to load_file; the guard is dropped either way
Lookup(r) ==
  /\ req[r].pc = "lookup"
  /\ lock = r
  /\ lock' = 0
  /\ IF CacheHas(req[r].filename)
       THEN req' = [req EXCEPT ![r].pc = "done",
                               ![r].resp = CacheControlResponse(cache[req[r].filename])]
       ELSE req' = [req EXCEPT ![r].pc = "load"]
  /\ UNCHANGED <<fs, dirOrder, now, feed, page, loaded, cache, fsChanges, inserts>>

\* where format!("./caden-blog/assets/{}", filename) leads, for each filename
\* a request can carry
AssetTarget == [f \in AssetRequestNames |-> Resolve(AssetsRoot \o f)]

\* load_file up to the insert: File::open and read_to_end on
\* "./caden-blog/assets/{filename}"; either failing ends in NOT_FOUND
LoadFile(r) ==
  /\ req[r].pc = "load"
  /\ LET rd == ReadResolved(AssetTarget[req[r].filename]) IN
       IF rd.ok
         THEN req' = [req EXCEPT ![r].pc = "loaded",
                                 ![r].contents = rd.content,
                                 ![r].reads = @ + 1,
                                 ![r].opened = @ \cup {rd.key}]
         ELSE req' = [req EXCEPT ![r].pc = "done",
                                 ![r].reads = @ + 1,
                                 ![r].resp = NotFoundResponse]
  /\ UNCHANGED <<fs, dirOrder, now, feed, page, loaded, cache, lock, fsChanges, inserts>>

\* cache.lock() of the insert
LockForInsert(r) ==
  /\ req[r].pc = "loaded"
  /\ lock = 0
  /\ lock' = r
  /\ req' = [req EXCEPT ![r].pc = "insert"]
  /\ inserts' = Append(inserts, r)
  /\ UNCHANGED <<fs, dirOrder, now, feed, page, loaded, cache, fsChanges>>

\* an insert that keeps the entry already there (entry().or_insert)
InsertKeepsFirst(r) ==
  /\ req[r].pc = "insert"
  /\ lock = r
  /\ lock' = 0
  /\ cache' = cache @@ (req[r].filename :> req[r].contents)
  /\ req' = [req EXCEPT ![r].pc = "done",
                        ![r].resp = CacheControlResponse(req[r].contents)]
  /\ UNCHANGED <<fs, dirOrder, now, feed, page, loaded, fsChanges, inserts>>

\* an insert into a map made anew, which drops the entries already there
InsertIntoFreshMap(r) ==
  /\ req[r].pc = "insert"
  /\ lock = r
  /\ lock' = 0
  /\ cache' = (req[r].filename :> req[r].contents)
  /\ req' = [req EXCEPT ![r].pc = "done",
                        ![r].resp = CacheControlResponse(req[r].contents)]
  /\ UNCHANGED <<fs, dirOrder, now, feed, page, loaded, fsChanges, inserts>>

\* .insert(filename, contents.clone()), the guard dropped, Some(contents)
\* returned and answered with cache_control_response
Insert(r) ==
  /\ req[r].pc = "insert"
  /\ lock = r
  /\ lock' = 0
  /\ cache' = (req[r].filename :> req[r].contents) @@ cache
  /\ req' = [req EXCEPT ![r].pc = "done",
                        ![r].resp = CacheControlResponse(req[r].contents)]
  /\ UNCHANGED <<fs, dirOrder, now, feed, page, loaded, fsChanges, inserts>>

(***************************************************************************)
(* The environment: asset files are written and deleted while the server   *)
(* runs.                                                                   *)
(***************************************************************************)
WriteAsset(name, file) ==
  /\ fsChanges < MaxFsChanges
  /\ IF FileKey("assets", name) \in DOMAIN fs THEN fs[FileKey("assets", name)] # file ELSE TRUE
  /\ fs' = (FileKey("assets", name) :> file) @@ fs
  /\ fsChanges' = fsChanges + 1
  /\ UNCHANGED <<dirOrder, now, feed, page, loaded, cache, lock, req, inserts>>

DeleteAsset(name) ==
  /\ fsChanges < MaxFsChanges
  /\ FileKey("assets", name) \in DOMAIN fs
  /\ fs' = [k \in DOMAIN fs \ {FileKey("assets", name)} |-> fs[k]]
  /\ fsChanges' = fsChanges + 1
  /\ UNCHANGED <<dirOrder, now, feed, page, loaded, cache, lock, req, inserts>>

(***************************************************************************)
(* Initial states.                                                         *)
(***************************************************************************)
\* the orders read_dir may yield the posts directory in
ListingOrders(S) ==
  {p \in [1..Cardinality(S) -> S] : \A i, j \in 1..Cardinality(S) : i # j => p[i] # p[j]}

\* the file trees in which each name is missing or one of its options
FileTrees(postNames, assetNames) ==
  LET keys == {FileKey("posts", n) : n \in postNames}
                \cup {FileKey("assets", n) : n \in assetNames}
      options(k) == IF k[1] = "posts" THEN PostFileOptions(k[2])
                    ELSE AssetFileOptions(k[2])
      choices == {c \in [keys -> PostFiles \cup AssetFiles \cup {Missing}] :
                    \A k \in keys : c[k] \in options(k) \cup {Missing}}
  IN {[k \in {j \in keys : c[j] # Missing} |-> c[k]] : c \in choices}

\* main: the cache starts empty, the Mutex free, no request in flight
InitServer ==
  /\ feed = Idle
  /\ page = Idle
  /\ loaded = Idle
  /\ cache = <<>>
  /\ lock = 0
  /\ req = [r \in Requests |-> IdleRequest]
  /\ fsChanges = 0
  /\ inserts = <<>>

Init ==
  /\ fs \in FileTrees(PostFileNames, AssetFileNames)
  /\ dirOrder \in ListingOrders(PostFileNames)
  /\ now \in 0..MaxTime
  /\ InitServer

\* the feed is served over any posts directory, listed in any order, at any time
InitFeed ==
  /\ fs \in FileTrees(PostFileNames, {})
  /\ dirOrder \in ListingOrders(PostFileNames)
  /\ now \in 0..MaxTime
  /\ InitServer

\* the post pages are served over any posts directory
InitPost ==
  /\ fs \in FileTrees(PostFileNames, {})
  /\ dirOrder = <<FileA, FileB, FileC, FileD>>
  /\ now = 0
  /\ InitServer

\* the assets are served beside one post, a.json
InitAssets ==
  /\ fs \in {t \in FileTrees({FileA}, AssetFileNames) :
               /\ FileKey("posts", FileA) \in DOMAIN t
               /\ t[FileKey("posts", FileA)] = [content |-> JsonOf(Payload1), readable |-> TRUE]}
  /\ dirOrder = <<FileA>>
  /\ now = 0
  /\ InitServer

(***************************************************************************)
(* Specifications.                                                         *)
(***************************************************************************)
FeedNext ==
  \E tag \in TagFilters, header \in ZoneHeaders, cookie \in ZoneCookies :
    PostsRequest(tag, header, cookie)

PostNext ==
  \/ \E u \in UrlNames : PostRequest(u)
  \/ \E n \in LoadIdentifiers : GetFromFileCall(n)

\* the steps of the requests in flight, and of the environment
AssetSteps ==
  \/ \E r \in Requests : LockForLookup(r)
  \/ \E r \in Requests : Lookup(r)
  \/ \E r \in Requests : LoadFile(r)
  \/ \E r \in Requests : LockForInsert(r)
  \/ \E r \in Requests : Insert(r)
  \/ \E n \in AssetFileNames, file \in AssetFiles : WriteAsset(n, file)
  \/ \E n \in AssetFileNames : DeleteAsset(n)

AssetNext ==
  \/ \E r \in Requests, f \in AssetRequestNames : Begin(r, f)
  \/ AssetSteps

\* a request that arrives when no other is in flight
BeginAlone(r, filename) ==
  /\ \A q \in Requests : req[q].pc \in {"idle", "done"}
  /\ Begin(r, filename)

\* one asset request at a time
AssetSeqNext ==
  \/ \E r \in Requests, f \in AssetRequestNames : BeginAlone(r, f)
  \/ AssetSteps

Next == FeedNext \/ PostNext \/ AssetNext

Spec == Init /\ [][Next]_vars

FeedSpec == InitFeed /\ [][FeedNext]_vars

PostSpec == InitPost /\ [][PostNext]_vars

AssetSpec == InitAssets /\ [][AssetNext]_vars

AssetSeqSpec == InitAssets /\ [][AssetSeqNext]_vars

\* the steps of the requests in flight
RequestSteps ==
  \E r \in Requests :
    \/ LockForLookup(r)
    \/ Lookup(r)
    \/ LoadFile(r)
    \/ LockForInsert(r)
    \/ Insert(r)

\* the runtime keeps running the tasks that can run, and a Mutex that is
\* free is given to a task that waits for it
AssetFairness == WF_vars(RequestSteps)

AssetFairSpec == InitAssets /\ [][AssetNext]_vars /\ AssetFairness

(***************************************************************************)
(* Vocabulary of the properties.                                           *)
(***************************************************************************)
\* some segment of the path string is ".."
HasDotDotSegment(s) == \E i \in 1..Len(Segments(s)) : Segments(s)[i] = DotDot

\* the file name's stem: the name up to its last ".", the whole name when it
\* has none or only a leading one
Stem(name) ==
  LET dots == {i \in 2..Len(name) : name[i] = "."} IN
    IF dots = {} THEN name
    ELSE SubSeq(name, 1, (CHOOSE i \in dots : \A j \in dots : j <= i) - 1)

\* the payload a card was written from (titles tell the payloads apart)
PayloadOfTitle(title) == CHOOSE p \in Payloads : p.title = title

\* the zone the resolution order header, cookie, UTC gives
ResolvedZone(header, cookie) ==
  IF header \in ValidZones THEN header
  ELSE IF cookie \in ValidZones THEN cookie
  ELSE "UTC"

\* the listed files that hold a readable, valid post under an accepted name
LoadableFiles ==
  SelectSeq(ListFilesInDirectory,
            LAMBDA n : /\ fs[FileKey("posts", n)].readable
                       /\ fs[FileKey("posts", n)].content.kind = "json"
                       /\ ~Contains(n, DotDot))

(***************************************************************************)
(* C1: an asset request whose filename has a ".." segment ends in          *)
(* NOT_FOUND, opens no file outside the assets directory, and leaves no    *)
(* cache entry under that filename.                                        *)
(***************************************************************************)
C1_TraversalAssetRejected ==
  /\ \A r \in Requests :
       (req[r].pc = "done" /\ HasDotDotSegment(req[r].filename)) =>
         /\ req[r].resp = NotFoundResponse
         /\ \A k \in req[r].opened : k[1] = "assets"
  /\ \A f \in DOMAIN cache : ~HasDotDotSegment(f)

(***************************************************************************)
(* C2: when the path built from a post identifier contains "..",           *)
(* get_from_file returns None and post_handler returns the not-found page, *)
(* and neither opens a file, whether the path exists or not.               *)
(***************************************************************************)
C2_TraversalPostNotFound ==
  /\ (page.state = "done" /\ Contains(PostsRoot \o page.url_name \o DotJson, DotDot)) =>
       /\ page.resp.kind = "not_found_page"
       /\ page.resp.opened = 0
  /\ (loaded.state = "done" /\ Contains(PostsRoot \o loaded.file_name, DotDot)) =>
       /\ loaded.res.kind = "none"
       /\ loaded.res.opened = 0

\* both loaders were asked for a ".." path that leads to a post that exists
C2_Witness ==
  /\ page.state = "done"
  /\ HasDotDotSegment(page.url_name)
  /\ PathExists(PostsRoot \o page.url_name \o DotJson)
  /\ page.resp.kind = "not_found_page"
  /\ loaded.state = "done"
  /\ HasDotDotSegment(loaded.file_name)
  /\ PathExists(PostsRoot \o loaded.file_name)
  /\ loaded.res.kind = "none"

(***************************************************************************)
(* C3: the feed holds no card of a post whose timestamp is later than the  *)
(* server's clock, with or without a tag filter.                           *)
(***************************************************************************)
C3_NoFuturePostInFeed ==
  (feed.state = "done" /\ feed.resp.kind = "html") =>
    \A i \in 1..Len(feed.resp.cards) :
      PayloadOfTitle(feed.resp.cards[i].title).timestamp <= now

(***************************************************************************)
(* C4: the feed under tag filter t is the feed without a filter, cut down  *)
(* to the posts one of whose tags is exactly t.                            *)
(***************************************************************************)
C4_FilteredFeedIsExactSubset ==
  (feed.state = "done" /\ feed.resp.kind = "html" /\ feed.tag.some) =>
    LET all == Posts(NoTag, feed.header, feed.cookie) IN
      /\ all.kind = "html"
      /\ feed.resp.cards =
           SelectSeq(all.cards,
                     LAMBDA c : \E i \in 1..Len(PayloadOfTitle(c.title).tags) :
                                  PayloadOfTitle(c.title).tags[i] = feed.tag.v)

\* a filter "software" kept one post and dropped another, tagged "Software"
C4_Witness ==
  /\ feed.state = "done"
  /\ feed.resp.kind = "html"
  /\ feed.tag = SomeTag("software")
  /\ Len(feed.resp.cards) = 1
  /\ Len(Posts(NoTag, feed.header, feed.cookie).cards) >= 2
  /\ \E i \in 1..Len(Posts(NoTag, feed.header, feed.cookie).cards) :
       Posts(NoTag, feed.header, feed.cookie).cards[i].title = Payload2.title

(***************************************************************************)
(* C5: with one asset request at a time, a request for a filename that an  *)
(* earlier request was answered with bytes for gets the same bytes and     *)
(* reads no file, whatever happened to the file since.                     *)
(***************************************************************************)
C5_SecondRequestServedFromCache ==
  \A a, b \in Requests :
    (/\ a < b
     /\ req[a].pc = "done"
     /\ req[b].pc = "done"
     /\ req[a].filename = req[b].filename
     /\ req[a].resp.kind = "ok") =>
      /\ req[b].resp = req[a].resp
      /\ req[b].reads = 0

\* the second request was answered from the cache although the file is gone
\* or holds other bytes
C5_Witness ==
  /\ req[1].pc = "done"
  /\ req[2].pc = "done"
  /\ req[1].filename = <<"x">>
  /\ req[2].filename = <<"x">>
  /\ req[1].resp.kind = "ok"
  /\ req[1].reads = 1
  /\ req[2].reads = 0
  /\ req[2].resp.kind = "ok"
  /\ IF FileKey("assets", <<"x">>) \in DOMAIN fs
       THEN fs[FileKey("assets", <<"x">>)].content # req[2].resp.body
       ELSE TRUE

(***************************************************************************)
(* C6: the feed's timestamps are written in the zone of the request's      *)
(* header when that is a valid zone, else of its cookie when that is, else *)
(* in UTC; the request never fails for its zone signals.                   *)
(***************************************************************************)
C6_ZoneFromHeaderThenCookie ==
  (feed.state = "done" /\ feed.resp.kind = "html") =>
    /\ feed.resp.zone = ResolvedZone(feed.header, feed.cookie)
    /\ \A i \in 1..Len(feed.resp.cards) :
         feed.resp.cards[i].posted =
           PayloadOfTitle(feed.resp.cards[i].title).timestamp
             + ZoneOffset(ResolvedZone(feed.header, feed.cookie))

(***************************************************************************)
(* C7: a post loaded from a valid file has the file name's stem as its     *)
(* url_name, whatever url_name the payload carries, and the payload's value *)
(* in every other field.                                                   *)
(***************************************************************************)
C7_SlugIsStem ==
  (loaded.state = "done" /\ loaded.res.kind = "some") =>
    LET post == loaded.res.post
        payload == fs[FileKey("posts", loaded.file_name)].content.payload
    IN /\ post.url_name = Stem(loaded.file_name)
       /\ post.title = payload.title
       /\ post.body = payload.body
       /\ post.image_url = payload.image_url
       /\ post.summary = payload.summary
       /\ post.timestamp = payload.timestamp
       /\ post.tags = payload.tags

(***************************************************************************)
(* C8: a feed request always completes, and without a filter it shows a    *)
(* card for every listed file that loads, skipping those that do not.      *)
(***************************************************************************)
C8_FeedSkipsFailingPost ==
  feed.state = "done" =>
    /\ feed.resp.kind = "html"
    /\ feed.tag = NoTag => Len(feed.resp.cards) = Len(LoadableFiles)

(***************************************************************************)
(* C9: a request for a single post never panics: a file that does not      *)
(* parse or cannot be read ends in an error response.                      *)
(***************************************************************************)
C9_PostRequestNeverPanics ==
  page.state = "done" =>
    /\ page.resp.kind # "panic"
    /\ (/\ PathAccepted(PostsRoot \o page.url_name \o DotJson)
        /\ page.resp.kind # "post_page") => page.resp.status \in {404, 500}

(***************************************************************************)
(* C10: a request for a post whose file does not exist is answered with    *)
(* status 404; so is a request for an asset whose file does not exist,     *)
(* which leaves the cache as it was.                                       *)
(***************************************************************************)
C10_MissingPostIs404 ==
  (page.state = "done" /\ ~PathExists(PostsRoot \o page.url_name \o DotJson)) =>
    page.resp.status = StatusNotFound

\* the asset half of C10, which holds: a request whose load found no file is
\* answered 404 and has put nothing in the cache
MissingAssetIs404 ==
  \A r \in Requests :
    (req[r].pc = "done" /\ req[r].reads = 1 /\ req[r].opened = {}) =>
      /\ req[r].resp = NotFoundResponse
      /\ (\A q \in Requests : q # r => req[q].filename # req[r].filename) =>
           req[r].filename \notin DOMAIN cache

(***************************************************************************)
(* C11: two requests that both miss on the same filename each read the     *)
(* file and each answer with the bytes they read; the cache then holds the *)
(* bytes of the request that took the lock for its insert last; and every  *)
(* request that arrived is answered in the end.                            *)
(***************************************************************************)
\* the requests for filename f that took the lock for an insert, in order
InsertersOf(f) == SelectSeq(inserts, LAMBDA r : req[r].filename = f)

\* a request that missed and read a file
ReadAFile(r) == req[r].reads = 1 /\ req[r].opened # {}

C11_MissesAnswered ==
  /\ \A r \in Requests :
       (req[r].pc = "done" /\ ReadAFile(r)) =>
         /\ req[r].resp = CacheControlResponse(req[r].contents)
         /\ fsChanges = 0 => \A k \in req[r].opened : fs[k].content = req[r].contents
  /\ \A f \in DOMAIN cache :
       (\A r \in Requests : ~(req[r].pc = "insert" /\ req[r].filename = f)) =>
         /\ InsertersOf(f) # <<>>
         /\ cache[f] = req[InsertersOf(f)[Len(InsertersOf(f))]].contents

C11_ConcurrentMisses ==
  /\ []C11_MissesAnswered
  /\ \A r \in Requests : (req[r].pc # "idle") ~> (req[r].pc = "done")

\* both requests missed on x and read different bytes; the second took the
\* lock first, and the cache holds what the first, the last to insert, read
C11_Witness ==
  /\ req[1].pc = "done"
  /\ req[2].pc = "done"
  /\ req[1].filename = <<"x">>
  /\ req[2].filename = <<"x">>
  /\ ReadAFile(1)
  /\ ReadAFile(2)
  /\ req[1].contents # req[2].contents
  /\ req[1].resp.body = req[1].contents
  /\ req[2].resp.body = req[2].contents
  /\ inserts = <<2, 1>>
  /\ cache[<<"x">>] = req[1].contents

(***************************************************************************)
(* C12: the cache is behind a reader/writer lock, so a lookup does not     *)
(* shut out another lookup: while one request is inside its lookup, a      *)
(* second request that has arrived can enter its own, and only an insert   *)
(* is exclusive.  (Two hits inside the lock together are the case of both  *)
(* filenames being cached already.)                                        *)
(***************************************************************************)
C12_LookupsShareTheLock ==
  \A r \in Requests, q \in Requests :
    (r # q /\ req[r].pc = "check" /\ req[q].pc = "lookup") =>
      ENABLED LockForLookup(r)

(***************************************************************************)
(* C13: the set of cached filenames only grows.  A step never removes an   *)
(* entry; a filename enters the cache only in the insert of a request for  *)
(* that filename that has read the file, with the bytes it read; and an    *)
(* entry stays when the file is rewritten or deleted afterwards.           *)
(***************************************************************************)
C13_CacheOnlyGrows ==
  [][/\ DOMAIN cache \subseteq DOMAIN cache'
     /\ \A f \in DOMAIN cache' \ DOMAIN cache :
          \E r \in Requests :
            /\ req[r].pc = "insert"
            /\ req'[r].pc = "done"
            /\ req[r].filename = f
            /\ ReadAFile(r)
            /\ cache'[f] = req[r].contents]_vars

\* x and a second filename are cached, and x stays cached although its file
\* is no longer there
C13_Witness ==
  /\ <<"x">> \in DOMAIN cache
  /\ Cardinality(DOMAIN cache) = 2
  /\ FileKey("assets", <<"x">>) \notin DOMAIN fs
  /\ \A r \in Requests : req[r].pc = "done"

(***************************************************************************)
(* C14: a request holds the cache lock exactly while it is in its lookup   *)
(* or in its insert.  So the lock is not held while the file is read, it   *)
(* is free of a request once the request has its response (hit, miss or    *)
(* NotFound), and a request about to call lock() does not hold it.         *)
(***************************************************************************)
C14_LockHeldOnlyForLookupAndInsert ==
  /\ lock \in Requests \cup {0}
  /\ \A r \in Requests : (lock = r) <=> (req[r].pc \in {"lookup", "insert"})

\* one request has read its file and is about to lock for the insert while
\* the other is inside its insert; the first holds nothing
C14_Witness ==
  \E r \in Requests, q \in Requests :
    /\ req[r].pc = "loaded"
    /\ req[q].pc = "insert"
    /\ lock = q

\* the three ways a request returns, each with the lock free
C14_ReturnedHit ==
  \E r \in Requests :
    req[r].pc = "done" /\ req[r].reads = 0 /\ req[r].resp.status = StatusOk

C14_ReturnedMiss ==
  \E r \in Requests :
    req[r].pc = "done" /\ ReadAFile(r) /\ req[r].resp.status = StatusOk

C14_ReturnedNotFound ==
  \E r \in Requests :
    req[r].pc = "done" /\ req[r].resp = NotFoundResponse

(***************************************************************************)
(* C15: the cards of the feed stand in the order in which the directory    *)
(* listing gave their files, with and without a tag filter: each card is   *)
(* written from a listed file, cards further down come from files further  *)
(* down the listing (so no file is shown twice), and every listed file     *)
(* that survives the filter has its card.                                  *)
(***************************************************************************)
\* the card a listed file is shown as
CardOfFile(n, zone) ==
  Card(DeserializePost(fs[FileKey("posts", n)].content, UrlNameOf(n)).post, zone)

\* whether a listed file survives the filter of the request
Survives(n, tag) ==
  tag.some => TagsContain(fs[FileKey("posts", n)].content.payload.tags, tag.v)

\* the places of the listing whose file is shown as card c
PlacesOfCard(c, zone) ==
  {k \in 1..Len(ListFilesInDirectory) : CardOfFile(ListFilesInDirectory[k], zone) = c}

C15_FeedKeepsListingOrder ==
  (feed.state = "done" /\ feed.resp.kind = "html") =>
    LET files == ListFilesInDirectory
        cards == feed.resp.cards
        zone == feed.resp.zone
    IN /\ \A i \in 1..Len(cards) : Cardinality(PlacesOfCard(cards[i], zone)) = 1
       /\ \A i, j \in 1..Len(cards) :
            i < j => \A k \in PlacesOfCard(cards[i], zone),
                        l \in PlacesOfCard(cards[j], zone) : k < l
       /\ \A k \in 1..Len(files) :
            Survives(files[k], feed.tag) <=>
              \E i \in 1..Len(cards) : k \in PlacesOfCard(cards[i], zone)

\* under the filter "software" the listing c.json, b.json.json, a.json is
\* shown as the cards of c and a, b's post being dropped
C15_Witness ==
  /\ feed.state = "done"
  /\ feed.resp.kind = "html"
  /\ feed.tag = SomeTag("software")
  /\ ListFilesInDirectory = <<FileC, FileB, FileA>>
  /\ ~Survives(FileB, feed.tag)
  /\ Len(feed.resp.cards) = 2
  /\ feed.resp.cards[1].link = PostLinkPrefix \o <<"c">>
  /\ feed.resp.cards[2].link = PostLinkPrefix \o <<"a">>

\* without a filter three cards are shown, neither in the order of the names
\* nor of the timestamps
C15_WitnessNoFilter ==
  /\ feed.state = "done"
  /\ feed.resp.kind = "html"
  /\ feed.tag = NoTag
  /\ Len(feed.resp.cards) = 3
  /\ feed.resp.cards[1].link = PostLinkPrefix \o <<"c">>
  /\ feed.resp.cards[1].title = Payload2.title
  /\ feed.resp.cards[2].link = PostLinkPrefix \o <<"a">>
  /\ feed.resp.cards[2].title = Payload1.title
  /\ feed.resp.cards[3].link = PostLinkPrefix \o <<"b">>

(***************************************************************************)
(* C16: the link of a card leads back to the file the card was written     *)
(* from: the path post_handler builds from the link's slug,                *)
(* "./caden-blog/posts/<slug>.json", is the path of that listed file, and  *)
(* the page it answers with is that file's post.                           *)
(***************************************************************************)
\* the url_name a request for a card's link carries
SlugOfLink(link) == SubSeq(link, Len(PostLinkPrefix) + 1, Len(link))

C16_CardLinkLeadsToItsFile ==
  (feed.state = "done" /\ feed.resp.kind = "html") =>
    \A i \in 1..Len(feed.resp.cards) :
      \A k \in PlacesOfCard(feed.resp.cards[i], feed.resp.zone) :
        LET slug == SlugOfLink(feed.resp.cards[i].link)
            file == ListFilesInDirectory[k]
        IN /\ PostsRoot \o slug \o DotJson = PostsRoot \o file
           /\ PostHandler(slug).kind = "post_page"
           /\ PostHandler(slug).post.title = feed.resp.cards[i].title

====
